---- MODULE Spec2Model ----
(***************************************************************************)
(* The scripting bridge of entityx_python: PythonScript components,        *)
(* PythonEventProxy registration lists, and PythonSystem's handling of     *)
(* ComponentAddedEvent<PythonScript>, EntityDestroyedEvent, update() and   *)
(* event delivery.  The entityx library (entity storage, event bus) is the *)
(* environment: entities are (index, version) pairs, indexes are recycled  *)
(* with a higher version, and notifications are delivered synchronously,   *)
(* once per subscription of the receiver.                                  *)
(***************************************************************************)
EXTENDS Integers, Sequences, FiniteSets, TLC

\* ------------------------------------------------------------- bounds
MaxEntities == 2       \* entity indexes the entity manager hands out
MaxVersion == 2        \* versions an index is created with
MaxConfigure == 2      \* calls of PythonSystem::configure
MaxProxies == 2        \* length of PythonSystem::event_proxies_
MaxReceivers == 2      \* length of a proxy's entities list
MaxText == 2           \* characters of one write to a logger
MaxWritten == 4        \* characters written to a logger in all
MaxSystems == 3        \* PythonSystem objects constructed in one process

Indexes == 1..MaxEntities

\* ------------------------------------------------------- script side
\* boost::python::object() is Python's None.
None == [kind |-> "None"]

\* The scripts the tests assign: (module, class, constructor args).
ScriptInputs ==
  { <<"entityx.tests.update_test", "UpdateTest", <<>>>>,
    <<"entityx.tests.event_test", "EventTest", <<>>>>,
    <<"entityx.tests.tick_test", "TickTest", <<4, 5>>>> }

ScriptClasses == { in[2] : in \in ScriptInputs }

\* Scripts for the failure paths: a module that cannot be imported, a class
\* its module does not define, a class whose constructor raises, a class
\* whose update and on_tick raise, and two that work.
ErrInputs ==
  { <<"entityx.tests.missing_test", "MissingTest", <<>>>>,
    <<"entityx.tests.tick_test", "MissingClass", <<>>>>,
    <<"entityx.tests.raise_test", "RaiseInit", <<>>>>,
    <<"entityx.tests.raise_test", "RaiseTest", <<>>>>,
    <<"entityx.tests.update_test", "UpdateTest", <<>>>>,
    <<"entityx.tests.tick_test", "TickTest", <<4, 5>>>> }

\* The classes of ErrInputs a script can be an instance of.
ErrClasses == {"RaiseTest", "UpdateTest", "TickTest"}

\* The scripts of the component tests: AssignTest declares
\* position = entityx.Component(Position, 1, 2).
CompInputs ==
  { <<"entityx.tests.assign_test", "AssignTest", <<>>>>,
    <<"entityx.tests.update_test", "UpdateTest", <<>>>> }

Declares(cls) == cls = "AssignTest"

\* Scripts whose on_tick changes the entities: DestroySelfTest calls
\* self.destroy(), DestroyOtherTest calls destroy() on the entity at the
\* next index (if there is one), and SpawnTest creates a TickTest entity.
LiveInputs ==
  { <<"entityx.tests.live_test", "DestroySelfTest", <<>>>>,
    <<"entityx.tests.live_test", "DestroyOtherTest", <<>>>>,
    <<"entityx.tests.live_test", "SpawnTest", <<>>>>,
    <<"entityx.tests.tick_test", "TickTest", <<4, 5>>>> }

LiveClasses == {"DestroySelfTest", "DestroyOtherTest", "SpawnTest"}

\* What py::import and module.attr(cls) find.
Modules ==
  [m \in {"entityx.tests.update_test", "entityx.tests.event_test",
          "entityx.tests.tick_test", "entityx.tests.raise_test",
          "entityx.tests.assign_test", "entityx.tests.live_test"} |->
     CASE m = "entityx.tests.update_test" -> {"UpdateTest"}
       [] m = "entityx.tests.assign_test" -> {"AssignTest"}
       [] m = "entityx.tests.event_test" -> {"EventTest"}
       [] m = "entityx.tests.tick_test" -> {"TickTest"}
       [] m = "entityx.tests.live_test" -> LiveClasses
       [] OTHER -> {"RaiseTest", "RaiseInit"}]

\* Handler methods a script class defines besides the inherited update().
Handlers(cls) ==
  CASE cls = "EventTest" -> {"on_collision"}
    [] cls = "TickTest" -> {"on_tick"}
    [] cls = "RaiseTest" -> {"on_tick"}
    [] cls \in LiveClasses -> {"on_tick"}
    [] OTHER -> {}

\* PyObject_HasAttrString(object, name): None has none of these attributes.
HasAttr(object, name) ==
  /\ object.kind = "instance"
  /\ name \in ({"update"} \cup Handlers(object.cls))

\* A fresh instance of script class cls for entity id, built with args.
Instance(cls, id, args) ==
  [kind |-> "instance", cls |-> cls, entity |-> id, args |-> args,
   updated |-> FALSE, collided |-> FALSE, position |-> <<>>]

\* A faulty variant of from_raw_entity: the captured args are not forwarded (the
\* no-argument branch is taken whatever py::len(args) is).
from_raw_entity_without_args(cls, id, args) == Instance(cls, id, <<>>)

\* cls._from_raw_entity(id) when the component captured no args, and
\* otherwise cls._from_raw_entity(*tuple(list)) with list = [id] extended by
\* args; the class builds the instance for its first argument and passes
\* the others to the constructor.
from_raw_entity(cls, id, args) ==
  LET list == IF Len(args) = 0 THEN <<id>> ELSE <<id>> \o args
  IN Instance(cls, Head(list), Tail(list))

\* RaiseTest's update and on_tick raise.
Raises(cls, method) == cls = "RaiseTest" /\ method \in {"update", "on_tick"}

\* The effect of calling a method the object has: UpdateTest.update sets
\* `updated`, EventTest.on_collision sets `collided`.
CallMethod(object, method) ==
  CASE method = "update" /\ object.cls = "UpdateTest" ->
         [object EXCEPT !.updated = TRUE]
    [] method = "on_collision" /\ object.cls = "EventTest" ->
         [object EXCEPT !.collided = TRUE]
    [] OTHER -> object

\* -------------------------------------------------- PythonScript
NoScript == [kind |-> "absent"]

\* ------------------------------------------------------ Position
\* An entity without the component: its handle is invalid.
NoComponent == <<>>

\* Position(x, y) as <<x, y>>; x and y default to 0.
Position(x, y) == <<x, y>>

\* A faulty variant of get_component: NULL whatever the entity holds.
get_component_null(store, id) == NoComponent

\* get_component<Component>(em, id): NULL when the entity has no such
\* component, and the entity's component otherwise.
get_component(store, id) ==
  IF store[id[1]] = NoComponent THEN NoComponent ELSE store[id[1]]

\* assign_to<Component>(component, em, id): em.assign<Component>(id,
\* component), which asserts that the entity has no such component yet
\* ("fault": the assertion fails).
assign_to(component, store, id) ==
  IF store[id[1]] = NoComponent
  THEN [store |-> [store EXCEPT ![id[1]] = component], raised |-> "none"]
  ELSE [store |-> store, raised |-> "fault"]

\* A faulty variant of unpack_args: each argument is put in front of the
\* ones captured before it.
RECURSIVE unpack_args_reversed(_, _)
unpack_args_reversed(list, given) ==
  IF given = <<>> THEN list
  ELSE unpack_args_reversed(<<Head(given)>> \o list, Tail(given))

\* PythonScript::unpack_args: args.append(arg), then the remainder.
RECURSIVE unpack_args(_, _)
unpack_args(list, given) ==
  IF given = <<>> THEN list
  ELSE unpack_args(Append(list, Head(given)), Tail(given))

\* PythonScript(module, cls, args...): object stays None.
PythonScript(module, cls, args) ==
  [kind |-> "script", module |-> module, cls |-> cls,
   args |-> unpack_args(<<>>, args), object |-> None]

\* A faulty variant of PythonScriptFromObject: the object is not stored.
PythonScriptFromObject_unset(object) ==
  [kind |-> "script", module |-> "", cls |-> "", args |-> <<>>,
   object |-> None]

\* PythonScript(object): wraps an existing Python instance.
PythonScriptFromObject(object) ==
  [kind |-> "script", module |-> "", cls |-> "", args |-> <<>>,
   object |-> object]

\* ------------------------------------------------ PythonEventProxy
\* One CollisionEventProxy instance and one BroadcastPythonEventProxy.
ProxyIds == {"collision", "broadcast"}

handler_name(p) == IF p = "collision" THEN "on_collision" ELSE "on_tick"

\* PythonEventProxy::can_send, which neither proxy overrides.
can_send(p, object) == HasAttr(object, handler_name(p))

\* PythonEventProxy::add_receiver: entities.push_back(entity).
add_receiver(list, entity) == Append(list, entity)

RECURSIVE FirstIndexOf(_, _, _)
FirstIndexOf(list, entity, k) ==
  IF k > Len(list) THEN 0
  ELSE IF list[k] = entity THEN k
  ELSE FirstIndexOf(list, entity, k + 1)

\* A faulty variant of delete_receiver: the first entry is erased without comparing
\* it with the entity.
delete_receiver_front(list, entity) ==
  IF list = <<>> THEN list ELSE SubSeq(list, 2, Len(list))

\* A faulty variant of delete_receiver: entries are compared by index
\* only, so an entry of another version of the index matches.
delete_receiver_by_index(list, entity) ==
  LET ks == { k \in 1..Len(list) : list[k][1] = entity[1] }
      k == IF ks = {} THEN 0 ELSE CHOOSE j \in ks : \A m \in ks : j <= m
  IN IF k = 0 THEN list
     ELSE SubSeq(list, 1, k - 1) \o SubSeq(list, k + 1, Len(list))

\* PythonEventProxy::delete_receiver: the first entry equal to the entity
\* (index and version) is erased.
delete_receiver(list, entity) ==
  LET k == FirstIndexOf(list, entity, 1)
  IN IF k = 0 THEN list
     ELSE SubSeq(list, 1, k - 1) \o SubSeq(list, k + 1, Len(list))

\* ------------------------------------------- PythonEntityXLogger
\* Text is a sequence of characters.
Chars == {"a", "b", "\n"}

Texts == UNION { [1..n -> Chars] : n \in 0..MaxText }

\* std::string::find: the first place of ch in str, from place k on
\* (0: npos).
RECURSIVE find(_, _, _)
find(str, ch, k) ==
  IF k > Len(str) THEN 0
  ELSE IF str[k] = ch THEN k
  ELSE find(str, ch, k + 1)

\* A faulty variant of flush: one line is emitted for each call (if in
\* place of while).
flush_once(lg, force) ==
  LET offset == find(lg.line, "\n", 1)
      cut == IF offset = 0 THEN lg
             ELSE [line |-> SubSeq(lg.line, offset + 1, Len(lg.line)),
                   out |-> Append(lg.out, SubSeq(lg.line, 1, offset - 1))]
  IN IF force /\ Len(cut.line) > 0
     THEN [line |-> <<>>, out |-> Append(cut.out, cut.line)]
     ELSE cut

\* PythonEntityXLogger::flush on lg = [line, out]: while line_ holds a
\* newline, logger_ gets the text before the first one and line_ keeps the
\* text after it; a forced flush then emits a non-empty line_.
RECURSIVE flush(_, _)
flush(lg, force) ==
  LET offset == find(lg.line, "\n", 1)
  IN IF offset # 0
     THEN flush([line |-> SubSeq(lg.line, offset + 1, Len(lg.line)),
                 out |-> Append(lg.out, SubSeq(lg.line, 1, offset - 1))],
                force)
     ELSE IF force /\ Len(lg.line) > 0
     THEN [line |-> <<>>, out |-> Append(lg.out, lg.line)]
     ELSE lg

VARIABLES
  index_counter_,   \* EntityManager: indexes handed out so far
  free_list_,       \* EntityManager: destroyed indexes awaiting reuse
  entity_version_,  \* EntityManager: current version of each index
  script,           \* the PythonScript component of each index
  position,         \* the Position component of each index
  configured,       \* subscriptions of the PythonSystem to the event bus
  event_proxies_,   \* PythonSystem::event_proxies_
  entities,         \* PythonEventProxy::entities of each proxy instance
  receiver,         \* a native CollisionReceiver and its place on the bus
  line_,            \* PythonEntityXLogger::line_ of the stdout logger
  logged,           \* the arguments logger_ was called with, in order
  written,          \* all the text written to the logger so far
  destroyed,        \* the logger's destructor has run
  initialized_,     \* PythonSystem::initialized_ (static)
  inittab,          \* PyImport_AppendInittab("_entityx", ...) calls so far
  inits,            \* init_entityx() calls so far
  constructed,      \* PythonSystem objects constructed so far
  pending,          \* the lifecycle notification being delivered
  lastOp,           \* the last update, emit or destroy
  calls,            \* the method invocations of the last pass, in order
  raised            \* how the last operation ended

vars == <<index_counter_, free_list_, entity_version_, script, position,
          configured, event_proxies_, entities, receiver, line_, logged,
          written, destroyed, initialized_, inittab, inits, constructed,
          pending, lastOp, calls, raised>>

logger == <<line_, logged, written, destroyed>>

\* The process-wide state of the interpreter's modules.
interpreter == <<initialized_, inittab, inits, constructed>>

ecs == <<index_counter_, free_list_, entity_version_>>
bridge == <<configured, event_proxies_, entities>>

\* A CollisionReceiver that is not subscribed; its a and b are
\* default-constructed (invalid) entities. `at` is the number of proxies
\* subscribed before it (-1: not subscribed).
NoReceiver == [at |-> -1, a |-> <<0, 0>>, b |-> <<0, 0>>]

NoPending == [kind |-> "none", entity |-> <<0, 0>>]
NoOp == [op |-> "none", a |-> <<0, 0>>, b |-> <<0, 0>>]

InFreeList(i) == \E k \in 1..Len(free_list_) : free_list_[k] = i

\* Entity::valid() of the handle (index, version).
Valid(id) ==
  /\ id[1] \in 1..index_counter_
  /\ ~InFreeList(id[1])
  /\ entity_version_[id[1]] = id[2]

Id(i) == <<i, entity_version_[i]>>

Alive == { i \in Indexes : Valid(Id(i)) }

Occurrences(seq, x) == Cardinality({ k \in 1..Len(seq) : seq[k] = x })

\* The managers and the members of a PythonSystem that was just made.
Fresh ==
  /\ index_counter_ = 0
  /\ free_list_ = <<>>
  /\ entity_version_ = [i \in Indexes |-> 1]
  /\ script = [i \in Indexes |-> NoScript]
  /\ position = [i \in Indexes |-> NoComponent]
  /\ configured = 0
  /\ event_proxies_ = <<>>
  /\ entities = [p \in ProxyIds |-> <<>>]
  /\ receiver = NoReceiver
  /\ line_ = <<>>
  /\ logged = <<>>
  /\ written = <<>>
  /\ destroyed = FALSE
  /\ pending = NoPending
  /\ lastOp = NoOp
  /\ calls = <<>>
  /\ raised = "none"

\* PyImport_AppendInittab("_entityx", init_entityx): one more registration
\* of the module with the interpreter.
initialize_python_module(n) == n + 1

\* A faulty variant of PythonSystem: both steps are taken whatever
\* initialized_ is.
PythonSystem_unguarded(st) ==
  [initialized_ |-> TRUE,
   inittab |-> initialize_python_module(st.inittab),
   inits |-> st.inits + 1]

\* PythonSystem::PythonSystem on st = [initialized_, inittab, inits]: the
\* module is registered if initialized_ is false, Py_Initialize() is called
\* (it does nothing when the interpreter runs), and then init_entityx() is
\* called and initialized_ set if initialized_ is false.
PythonSystem(st) ==
  LET registered == IF ~st.initialized_
                    THEN [st EXCEPT
                            !.inittab = initialize_python_module(@)]
                    ELSE st
  IN IF ~registered.initialized_
     THEN [registered EXCEPT !.inits = @ + 1, !.initialized_ = TRUE]
     ELSE registered

\* The process before any PythonSystem is constructed.
InitProcess ==
  /\ Fresh
  /\ initialized_ = FALSE
  /\ inittab = 0
  /\ inits = 0
  /\ constructed = 0

\* The process after its first PythonSystem is constructed.
Init ==
  /\ Fresh
  /\ LET st == PythonSystem([initialized_ |-> FALSE, inittab |-> 0,
                             inits |-> 0])
     IN /\ initialized_ = st.initialized_
        /\ inittab = st.inittab
        /\ inits = st.inits
  /\ constructed = 1

\* No notification is in flight and the process has not aborted.
Idle == pending.kind = "none" /\ raised # "fault"

NoPass == lastOp' = NoOp /\ calls' = <<>> /\ raised' = "none"

\* A step that is no emission leaves the native receiver alone, and a step
\* in which no script prints leaves the logger alone.
NoEmit == UNCHANGED receiver

NoLog == UNCHANGED logger

\* A step that constructs no PythonSystem leaves the interpreter's modules
\* alone.
NoConstruct == UNCHANGED interpreter

\* =============================================================== bridge
\* PythonSystem::configure: one more subscription of the system to
\* EntityDestroyedEvent and ComponentAddedEvent<PythonScript>.
Configure ==
  /\ Idle
  /\ configured < MaxConfigure
  /\ configured' = configured + 1
  /\ NoPass
  /\ NoEmit
  /\ NoLog
  /\ NoConstruct
  /\ UNCHANGED <<ecs, script, position, event_proxies_, entities, pending>>

\* add_event_proxy<Event>(event_manager, handler_name): a new broadcast
\* proxy is subscribed and recorded.
AddBroadcastProxy ==
  /\ Idle
  /\ Len(event_proxies_) < MaxProxies
  /\ Occurrences(event_proxies_, "broadcast") = 0
  /\ event_proxies_' = Append(event_proxies_, "broadcast")
  /\ NoPass
  /\ NoEmit
  /\ NoLog
  /\ NoConstruct
  /\ UNCHANGED <<ecs, script, position, configured, entities, pending>>

\* add_event_proxy<Event, Proxy>(event_manager, proxy): the caller's proxy
\* instance is subscribed and recorded, each time it is passed.
AddCollisionProxy ==
  /\ Idle
  /\ Len(event_proxies_) < MaxProxies
  /\ event_proxies_' = Append(event_proxies_, "collision")
  /\ NoPass
  /\ NoEmit
  /\ NoLog
  /\ NoConstruct
  /\ UNCHANGED <<ecs, script, position, configured, entities, pending>>

\* The loop of receive(ComponentAddedEvent): every recorded proxy that can
\* send to the object gets the entity appended.
RECURSIVE RegisterAll(_, _, _, _)
RegisterAll(ents, object, entity, k) ==
  IF k > Len(event_proxies_) THEN ents
  ELSE LET p == event_proxies_[k]
       IN RegisterAll(
            IF can_send(p, object)
            THEN [ents EXCEPT ![p] = add_receiver(@, entity)]
            ELSE ents,
            object, entity, k + 1)

\* operator! of boost::python::object is Python's truth test: None is
\* false, and an instance of a script class (none defines __nonzero__ or
\* __len__) is true.
Truthy(object) == object.kind # "None"

\* A faulty variant of Realize: the object is created whether or not the
\* component already has one.
Realize_always(comp, entity) ==
  [comp EXCEPT !.object = from_raw_entity(comp.cls, entity, comp.args)]

\* The first half of receive(ComponentAddedEvent): a component without a
\* Python object gets one from the class's _from_raw_entity.
Realize(comp, entity) ==
  IF ~Truthy(comp.object)
  THEN [comp EXCEPT !.object = from_raw_entity(comp.cls, entity, comp.args)]
  ELSE comp

\* What py::import(module), module.attr(cls) and cls._from_raw_entity raise
\* for a component without a Python object ("none": nothing).
RealizeError(comp) ==
  IF Truthy(comp.object) THEN "none"
  ELSE IF comp.module \notin DOMAIN Modules THEN "ImportError"
  ELSE IF comp.cls \notin Modules[comp.module] THEN "AttributeError"
  ELSE IF comp.cls = "RaiseInit" THEN "Exception"
  ELSE "none"

\* The component a declaring class gets when its instance is built: the
\* entity's own one if get_component finds it, and otherwise one built with
\* the declared defaults and given to the entity with assign_to.
ResolveComponent(st, e) ==
  LET found == get_component(st.position, e)
      made == assign_to(Position(1, 2), st.position, e)
  IN IF found # NoComponent
     THEN [st EXCEPT !.script[e[1]].object.position = found]
     ELSE [st EXCEPT !.position = made.store,
                     !.raised = made.raised,
                     !.script[e[1]].object.position = Position(1, 2)]

\* receive(ComponentAddedEvent) when nothing is raised: the object is made
\* if the component has none, and the proxy loop runs.
RealizeAndRegister(st, e) ==
  LET fresh == ~Truthy(st.script[e[1]].object)
      comp == Realize(st.script[e[1]], e)
      made == [st EXCEPT !.script[e[1]] = comp]
      built == IF fresh /\ Declares(comp.cls)
               THEN ResolveComponent(made, e) ELSE made
  IN IF built.raised # "none" THEN built
     ELSE [built EXCEPT
             !.entities = RegisterAll(built.entities,
                                      built.script[e[1]].object, e, 1)]

\* A faulty variant of receive_ComponentAdded: what realization raises is
\* swallowed and the handler returns normally.
receive_ComponentAdded_swallowing(st, e) ==
  IF RealizeError(st.script[e[1]]) # "none"
  THEN st
  ELSE RealizeAndRegister(st, e)

\* PythonSystem::receive(const ComponentAddedEvent<PythonScript>&) on
\* st = [script, position, entities, raised]: what realization raises
\* leaves the handler before the object is stored and before the proxy loop.
receive_ComponentAdded(st, e) ==
  IF RealizeError(st.script[e[1]]) # "none"
  THEN [st EXCEPT !.raised = RealizeError(st.script[e[1]])]
  ELSE RealizeAndRegister(st, e)

\* The event bus calls the handler once for each subscription of the
\* system; an exception leaves the emit.
RECURSIVE NotifyAdded(_, _, _)
NotifyAdded(st, e, n) ==
  IF n = 0 \/ st.raised # "none" THEN st
  ELSE NotifyAdded(receive_ComponentAdded(st, e), e, n - 1)

\* The bridge processes the ComponentAddedEvent<PythonScript> in flight.
ReceiveComponentAdded ==
  /\ raised # "fault"
  /\ pending.kind = "added"
  /\ LET st == NotifyAdded([script |-> script, position |-> position,
                            entities |-> entities, raised |-> "none"],
                           pending.entity, configured)
     IN /\ script' = st.script
        /\ position' = st.position
        /\ entities' = st.entities
        /\ raised' = st.raised
  /\ pending' = NoPending
  /\ lastOp' = NoOp
  /\ calls' = <<>>
  /\ NoEmit
  /\ NoLog
  /\ NoConstruct
  /\ UNCHANGED <<ecs, configured, event_proxies_>>

\* The loop of receive(EntityDestroyedEvent).
RECURSIVE UnregisterAll(_, _, _)
UnregisterAll(ents, entity, k) ==
  IF k > Len(event_proxies_) THEN ents
  ELSE UnregisterAll(
         [ents EXCEPT ![event_proxies_[k]] = delete_receiver(@, entity)],
         entity, k + 1)

\* PythonSystem::receive(const EntityDestroyedEvent&)
receive_EntityDestroyed(ents, entity) == UnregisterAll(ents, entity, 1)

\* The event bus calls the handler once for each subscription of the system.
RECURSIVE NotifyDestroyed(_, _, _)
NotifyDestroyed(ents, entity, n) ==
  IF n = 0 THEN ents
  ELSE NotifyDestroyed(receive_EntityDestroyed(ents, entity), entity, n - 1)

\* ================================================================== ECS
\* The cap of the model on a proxy's list: what an assignment would append.
Room(cls) ==
  \A p \in ProxyIds :
    Len(entities[p])
      + (IF handler_name(p) \in Handlers(cls)
         THEN configured * Occurrences(event_proxies_, p) ELSE 0)
      <= MaxReceivers

CanCreate ==
  IF free_list_ = <<>> THEN index_counter_ < MaxEntities
  ELSE entity_version_[free_list_[Len(free_list_)]] <= MaxVersion

\* EntityManager::create: the index it hands out.
NewIndex ==
  IF free_list_ = <<>> THEN index_counter_ + 1
  ELSE free_list_[Len(free_list_)]

CreateEcs ==
  /\ index_counter_' = IF free_list_ = <<>> THEN index_counter_ + 1
                       ELSE index_counter_
  /\ free_list_' = IF free_list_ = <<>> THEN <<>>
                   ELSE SubSeq(free_list_, 1, Len(free_list_) - 1)
  /\ UNCHANGED entity_version_

Notify(kind, entity) == [kind |-> kind, entity |-> entity]

\* entity_manager->create()
Create ==
  /\ Idle
  /\ CanCreate
  /\ CreateEcs
  /\ NoPass
  /\ NoEmit
  /\ NoLog
  /\ NoConstruct
  /\ UNCHANGED <<script, position, bridge, pending>>

\* e.assign<PythonScript>(module, cls, args...): the component is stored
\* and ComponentAddedEvent<PythonScript> is emitted.
AssignScript(i, in) ==
  /\ Idle
  /\ i \in Alive
  /\ script[i].kind = "absent"
  /\ Room(in[2])
  /\ script' = [script EXCEPT ![i] = PythonScript(in[1], in[2], in[3])]
  /\ pending' = IF configured = 0 THEN NoPending ELSE Notify("added", Id(i))
  /\ NoPass
  /\ NoEmit
  /\ NoLog
  /\ NoConstruct
  /\ UNCHANGED <<ecs, position, bridge>>

\* EntityManager_configure(entity_manager, self): a script-side object
\* creates its entity and is assigned to it as PythonScript(self).
EntityManager_configure(cls) ==
  /\ Idle
  /\ CanCreate
  /\ Room(cls)
  /\ CreateEcs
  /\ LET i == NewIndex
         self == Instance(cls, <<i, entity_version_[i]>>, <<>>)
     IN /\ script' = [script EXCEPT ![i] = PythonScriptFromObject(self)]
        /\ pending' = IF configured = 0 THEN NoPending
                      ELSE Notify("added", <<i, entity_version_[i]>>)
  /\ NoPass
  /\ NoEmit
  /\ NoLog
  /\ NoConstruct
  /\ UNCHANGED <<position, bridge>>

\* e.assign<Position>(x, y)
AssignPosition(i, x, y) ==
  /\ Idle
  /\ i \in Alive
  /\ position[i] = NoComponent
  /\ position' = [position EXCEPT ![i] = Position(x, y)]
  /\ NoPass
  /\ NoEmit
  /\ NoLog
  /\ NoConstruct
  /\ UNCHANGED <<ecs, script, bridge, pending>>

\* e.remove<PythonScript>(): the bridge subscribes to no removal event.
RemoveScript(i) ==
  /\ Idle
  /\ i \in Alive
  /\ script[i].kind = "script"
  /\ script' = [script EXCEPT ![i] = NoScript]
  /\ NoPass
  /\ NoEmit
  /\ NoLog
  /\ NoConstruct
  /\ UNCHANGED <<ecs, position, bridge, pending>>

\* Entity::destroy (PythonEntity::destroy): EntityDestroyedEvent is emitted
\* with the entity still valid; then its components are dropped, the
\* version of its index is bumped and the index is put on the free list.
DestroyEntity(i) ==
  /\ Idle
  /\ i \in Alive
  /\ entities' = NotifyDestroyed(entities, Id(i), configured)
  /\ script' = [script EXCEPT ![i] = NoScript]
  /\ position' = [position EXCEPT ![i] = NoComponent]
  /\ entity_version_' = [entity_version_ EXCEPT ![i] = @ + 1]
  /\ free_list_' = Append(free_list_, i)
  /\ lastOp' = [NoOp EXCEPT !.op = "destroy", !.a = Id(i)]
  /\ calls' = <<>>
  /\ raised' = "none"
  /\ NoEmit
  /\ NoLog
  /\ NoConstruct
  /\ UNCHANGED <<index_counter_, configured, event_proxies_, pending>>

\* ================================================================ passes
\* A pass threads st = [script, calls, raised] through its invocations; once
\* something is raised the rest of the pass is skipped (the exception
\* leaves the loop).

\* object.attr(method)(...): getattr on None, or on an instance without the
\* method, raises AttributeError.
CallAttr(st, ent, method) ==
  LET object == st.script[ent[1]].object
  IN IF ~HasAttr(object, method)
     THEN [st EXCEPT !.calls = Append(@, <<ent, method>>),
                     !.raised = "AttributeError"]
     ELSE IF Raises(object.cls, method)
     THEN [st EXCEPT !.calls = Append(@, <<ent, method>>),
                     !.raised = "Exception"]
     ELSE [st EXCEPT !.script[ent[1]].object = CallMethod(object, method),
                     !.calls = Append(@, <<ent, method>>)]

\* entity.component<PythonComponent>()->object.attr(method)(event): the
\* asserts of Entity::component (valid entity) and ComponentHandle::operator->
\* (component present) abort the process.
SendTo(st, ent, method) ==
  IF ~Valid(ent) \/ st.script[ent[1]].kind # "script"
  THEN [st EXCEPT !.raised = "fault"]
  ELSE CallAttr(st, ent, method)

\* A faulty variant of UpdateEach: the loop goes on to the next entity after
\* an update raised.
RECURSIVE UpdateEach_continuing(_, _)
UpdateEach_continuing(st, i) ==
  IF i > MaxEntities THEN st
  ELSE IF i \in Alive /\ st.script[i].kind = "script"
       THEN UpdateEach_continuing(CallAttr(st, Id(i), "update"), i + 1)
       ELSE UpdateEach_continuing(st, i + 1)

\* PythonSystem::update: em.each<PythonScript> visits every entity holding
\* the component, in index order.
RECURSIVE UpdateEach(_, _)
UpdateEach(st, i) ==
  IF i > MaxEntities \/ st.raised # "none" THEN st
  ELSE IF i \in Alive /\ st.script[i].kind = "script"
       THEN UpdateEach(CallAttr(st, Id(i), "update"), i + 1)
       ELSE UpdateEach(st, i + 1)

\* A faulty variant of BroadcastReceive: the list is walked from its last
\* entry to its first.
RECURSIVE BroadcastReceive_backwards(_, _, _)
BroadcastReceive_backwards(st, p, k) ==
  IF k > Len(entities[p]) \/ st.raised # "none" THEN st
  ELSE BroadcastReceive_backwards(
         SendTo(st, entities[p][Len(entities[p]) + 1 - k], handler_name(p)),
         p, k + 1)

\* BroadcastPythonEventProxy<Event>::receive
RECURSIVE BroadcastReceive(_, _, _)
BroadcastReceive(st, p, k) ==
  IF k > Len(entities[p]) \/ st.raised # "none" THEN st
  ELSE BroadcastReceive(SendTo(st, entities[p][k], handler_name(p)), p, k + 1)

\* CollisionEventProxy::receive
RECURSIVE CollisionReceive(_, _, _, _, _)
CollisionReceive(st, p, a, b, k) ==
  IF k > Len(entities[p]) \/ st.raised # "none" THEN st
  ELSE LET entity == entities[p][k]
       IN CollisionReceive(
            IF entity = a \/ entity = b
            THEN SendTo(st, entity, "on_collision")
            ELSE st,
            p, a, b, k + 1)

\* CollisionReceiver::receive: a = event.a; b = event.b.
CollisionReceiver_receive(st, ev) ==
  [st EXCEPT !.received = <<ev.a, ev.b>>]

\* EventManager::emit: every subscription of the event's type receives it,
\* in subscription order: at place k the k-th recorded proxy, then the
\* native receiver subscribed after k proxies. An exception leaves the emit.
RECURSIVE EmitEvent(_, _, _)
EmitEvent(st, ev, k) ==
  IF k > Len(event_proxies_) \/ st.raised # "none" THEN st
  ELSE LET p == event_proxies_[k]
           sent == IF k = 0 THEN st
                   ELSE IF ev.op = "collision" /\ p = "collision"
                   THEN CollisionReceive(st, p, ev.a, ev.b, 1)
                   ELSE IF ev.op = "tick" /\ p = "broadcast"
                   THEN BroadcastReceive(st, p, 1)
                   ELSE st
       IN EmitEvent(
            IF sent.raised = "none" /\ receiver.at = k
               /\ ev.op = "collision"
            THEN CollisionReceiver_receive(sent, ev)
            ELSE sent,
            ev, k + 1)

Start == [script |-> script, calls |-> <<>>, raised |-> "none",
          received |-> <<receiver.a, receiver.b>>]

\* Some subscribed proxy of kind p has a receiver: the emission reaches a
\* script (an emission that reaches none changes nothing).
Reaches(p) ==
  Occurrences(event_proxies_, p) > 0 /\ entities[p] # <<>>

Finish(op, st) ==
  /\ lastOp' = op
  /\ script' = st.script
  /\ calls' = st.calls
  /\ raised' = st.raised
  /\ receiver' = [receiver EXCEPT !.a = st.received[1], !.b = st.received[2]]
  /\ NoLog
  /\ NoConstruct
  /\ UNCHANGED <<ecs, position, bridge, pending>>

\* PythonEntityXLogger::write(text): line_ += text; flush().
write(text) ==
  /\ ~destroyed
  /\ Len(written) + Len(text) <= MaxWritten
  /\ LET lg == flush([line |-> line_ \o text, out |-> logged], FALSE)
     IN line_' = lg.line /\ logged' = lg.out
  /\ written' = written \o text
  /\ NoConstruct
  /\ UNCHANGED <<destroyed, ecs, script, position, bridge, receiver,
                 pending, lastOp, calls, raised>>

\* PythonEntityXLogger::~PythonEntityXLogger: flush(true).
DestroyLogger ==
  /\ ~destroyed
  /\ LET lg == flush([line |-> line_, out |-> logged], TRUE)
     IN line_' = lg.line /\ logged' = lg.out
  /\ destroyed' = TRUE
  /\ NoConstruct
  /\ UNCHANGED <<written, ecs, script, position, bridge, receiver,
                 pending, lastOp, calls, raised>>

\* python->update(entity_manager, event_manager, dt)
Update ==
  /\ Idle
  /\ Finish([NoOp EXCEPT !.op = "update"], UpdateEach(Start, 1))

\* event_manager->emit<CollisionEvent>(a, b)
EmitCollision(a, b) ==
  /\ Idle
  /\ Valid(a) /\ Valid(b)
  /\ a[1] <= b[1]
  /\ Reaches("collision")
  /\ LET ev == [op |-> "collision", a |-> a, b |-> b]
     IN Finish(ev, EmitEvent(Start, ev, 0))

\* event_manager->subscribe<CollisionEvent>(receiver)
SubscribeReceiver ==
  /\ Idle
  /\ receiver.at = -1
  /\ receiver' = [receiver EXCEPT !.at = Len(event_proxies_)]
  /\ NoPass
  /\ NoLog
  /\ NoConstruct
  /\ UNCHANGED <<ecs, script, position, bridge, pending>>

\* operator Entity of PythonEntity: the entity the script object was
\* built for.
ToEntity(object) == object.entity

\* entityx.emit(Collision(x, y)) in a script, x and y being the script
\* objects of two entities: EventManager::emit(const BaseEvent&) sends the
\* event to the receivers of its own type.
emit_from_script(i, j) ==
  /\ Idle
  /\ i \in Alive /\ j \in Alive
  /\ i <= j
  /\ script[i].kind = "script" /\ Truthy(script[i].object)
  /\ script[j].kind = "script" /\ Truthy(script[j].object)
  /\ Reaches("collision") \/ receiver.at >= 0
  /\ LET ev == [op |-> "collision", a |-> ToEntity(script[i].object),
                b |-> ToEntity(script[j].object)]
     IN Finish([ev EXCEPT !.op = "emit"], EmitEvent(Start, ev, 0))

\* event_manager->emit of the broadcast proxy's event type
EmitTick ==
  /\ Idle
  /\ Reaches("broadcast")
  /\ LET ev == [NoOp EXCEPT !.op = "tick"]
     IN Finish(ev, EmitEvent(Start, ev, 0))

\* ------------------------------------------------ passes that mutate
\* A delivery pass whose handlers destroy or create entities threads
\* st = [index_counter_, free_list_, entity_version_, script, position,
\* entities, calls, raised, it, overflow] through its invocations. `it` is
\* the iterator of the running range-for over the list of proxy it.p: the
\* node it points to is entry it.k; once that node has been erased the
\* iterator is dangling and it.k is the entry that followed the node.

\* Entity::valid() of a handle in st.
ValidIn(st, id) ==
  /\ id[1] \in 1..st.index_counter_
  /\ \A k \in 1..Len(st.free_list_) : st.free_list_[k] # id[1]
  /\ st.entity_version_[id[1]] = id[2]

\* std::list::erase of the first entry equal to the entity, seen from the
\* iterator of the running pass: iterators to other nodes stay valid, the
\* one to the erased node does not.
AfterErase(it, q, list, entity) ==
  LET j == FirstIndexOf(list, entity, 1)
  IN IF q # it.p \/ j = 0 \/ j > it.k THEN it
     ELSE IF j < it.k THEN [it EXCEPT !.k = @ - 1]
     ELSE IF it.dangling THEN it
     ELSE [it EXCEPT !.dangling = TRUE]

\* The loop of receive(EntityDestroyedEvent) during a pass.
RECURSIVE UnregisterAllLive(_, _, _)
UnregisterAllLive(st, entity, m) ==
  IF m > Len(event_proxies_) THEN st
  ELSE LET q == event_proxies_[m]
       IN UnregisterAllLive(
            [st EXCEPT
               !.it = AfterErase(@, q, st.entities[q], entity),
               !.entities[q] = delete_receiver(@, entity)],
            entity, m + 1)

\* The event bus calls the handler once for each subscription of the system.
RECURSIVE NotifyDestroyedLive(_, _, _)
NotifyDestroyedLive(st, entity, n) ==
  IF n = 0 THEN st
  ELSE NotifyDestroyedLive(UnregisterAllLive(st, entity, 1), entity, n - 1)

\* PythonEntity::destroy: _entity.destroy(), which asserts that the entity
\* is valid, emits EntityDestroyedEvent, drops the components and frees the
\* index.
PythonEntity_destroy(st, e) ==
  IF ~ValidIn(st, e) THEN [st EXCEPT !.raised = "fault"]
  ELSE LET told == NotifyDestroyedLive(st, e, configured)
       IN [told EXCEPT !.script[e[1]] = NoScript,
                       !.position[e[1]] = NoComponent,
                       !.entity_version_[e[1]] = @ + 1,
                       !.free_list_ = Append(@, e[1])]

\* EntityManager_configure during a pass: the entity is created, the
\* caller is assigned to it as PythonScript(self), and the bridge handles
\* the notification before the call returns. The caps of the model on
\* indexes and list lengths raise `overflow`.
EntityManager_configure_live(st, cls) ==
  LET reuse == st.free_list_ # <<>>
      i == IF reuse THEN st.free_list_[Len(st.free_list_)]
           ELSE st.index_counter_ + 1
      can == IF reuse THEN st.entity_version_[i] <= MaxVersion
             ELSE st.index_counter_ < MaxEntities
      room == \A p \in ProxyIds :
                Len(st.entities[p])
                  + (IF handler_name(p) \in Handlers(cls)
                     THEN configured * Occurrences(event_proxies_, p)
                     ELSE 0)
                  <= MaxReceivers
  IN IF ~can \/ ~room THEN [st EXCEPT !.overflow = TRUE]
     ELSE LET e == <<i, st.entity_version_[i]>>
              self == Instance(cls, e, <<>>)
              made == [st EXCEPT
                         !.index_counter_ = IF reuse THEN @ ELSE @ + 1,
                         !.free_list_ = IF reuse
                                        THEN SubSeq(@, 1, Len(@) - 1)
                                        ELSE @,
                         !.script[i] = PythonScriptFromObject(self)]
          IN NotifyAdded(made, e, configured)

\* What the on_tick of the object does.
on_tick(st, object) ==
  CASE object.cls = "DestroySelfTest" ->
         PythonEntity_destroy(st, object.entity)
    [] object.cls = "DestroyOtherTest" ->
         LET other == (object.entity[1] % MaxEntities) + 1
             e == <<other, st.entity_version_[other]>>
         IN IF ValidIn(st, e) /\ other # object.entity[1]
            THEN PythonEntity_destroy(st, e) ELSE st
    [] object.cls = "SpawnTest" ->
         EntityManager_configure_live(st, "TickTest")
    [] OTHER -> st

\* entity.component<PythonComponent>()->object.attr(handler_name)(event)
\* during a pass.
SendToLive(st, ent, method) ==
  IF ~ValidIn(st, ent) \/ st.script[ent[1]].kind # "script"
  THEN [st EXCEPT !.raised = "fault"]
  ELSE LET object == st.script[ent[1]].object
           called == [st EXCEPT !.calls = Append(@, <<ent, method>>)]
       IN IF ~HasAttr(object, method)
          THEN [called EXCEPT !.raised = "AttributeError"]
          ELSE on_tick(called, object)

\* What ++ of an iterator whose node was erased can do: the read of the
\* freed node finds the old link to the next node, or the process faults.
Dangling == {"next", "fault"}

\* ++i of the range-for.
Advance(st, ub) ==
  IF st.raised # "none" THEN st
  ELSE IF st.it.dangling
  THEN IF ub = "fault" THEN [st EXCEPT !.raised = "fault"]
       ELSE [st EXCEPT !.it.dangling = FALSE]
  ELSE [st EXCEPT !.it.k = @ + 1]

\* BroadcastPythonEventProxy<Event>::receive over the list as it is at
\* each iteration: i != entities.end() is evaluated on the list as it is
\* then.
RECURSIVE BroadcastReceiveLive(_, _)
BroadcastReceiveLive(st, ub) ==
  IF st.raised # "none" \/ st.it.k > Len(st.entities[st.it.p]) THEN st
  ELSE BroadcastReceiveLive(
         Advance(SendToLive(st, st.entities[st.it.p][st.it.k],
                            handler_name(st.it.p)), ub),
         ub)

StartLive ==
  [index_counter_ |-> index_counter_, free_list_ |-> free_list_,
   entity_version_ |-> entity_version_, script |-> script,
   position |-> position, entities |-> entities, calls |-> <<>>,
   raised |-> "none", overflow |-> FALSE,
   it |-> [p |-> "broadcast", k |-> 1, dangling |-> FALSE]]

\* event_manager->emit of the broadcast proxy's event type, to scripts
\* whose handlers destroy and create entities.
EmitTickLive(ub) ==
  /\ Idle
  /\ Reaches("broadcast")
  /\ LET st == BroadcastReceiveLive(StartLive, ub)
     IN /\ ~st.overflow
        /\ index_counter_' = st.index_counter_
        /\ free_list_' = st.free_list_
        /\ entity_version_' = st.entity_version_
        /\ script' = st.script
        /\ position' = st.position
        /\ entities' = st.entities
        /\ calls' = st.calls
        /\ raised' = st.raised
  /\ lastOp' = [NoOp EXCEPT !.op = "tick"]
  /\ NoEmit
  /\ NoLog
  /\ NoConstruct
  /\ UNCHANGED <<configured, event_proxies_, pending>>

\* PythonSystemTest::PythonSystemTest: a test case makes new managers and a
\* new PythonSystem for them; what the process keeps is the interpreter.
Construct ==
  /\ Idle
  /\ constructed < MaxSystems
  /\ LET st == PythonSystem([initialized_ |-> initialized_,
                             inittab |-> inittab, inits |-> inits])
     IN /\ initialized_' = st.initialized_
        /\ inittab' = st.inittab
        /\ inits' = st.inits
  /\ constructed' = constructed + 1
  /\ index_counter_' = 0
  /\ free_list_' = <<>>
  /\ entity_version_' = [i \in Indexes |-> 1]
  /\ script' = [i \in Indexes |-> NoScript]
  /\ position' = [i \in Indexes |-> NoComponent]
  /\ configured' = 0
  /\ event_proxies_' = <<>>
  /\ entities' = [p \in ProxyIds |-> <<>>]
  /\ receiver' = NoReceiver
  /\ pending' = NoPending
  /\ NoPass
  /\ NoLog

Next ==
  \/ Configure
  \/ AddBroadcastProxy
  \/ AddCollisionProxy
  \/ ReceiveComponentAdded
  \/ Create
  \/ \E i \in Indexes, in \in ScriptInputs : AssignScript(i, in)
  \/ \E cls \in ScriptClasses : EntityManager_configure(cls)
  \/ \E i \in Indexes : RemoveScript(i)
  \/ \E i \in Indexes : DestroyEntity(i)
  \/ Update
  \/ \E i, j \in Indexes : EmitCollision(Id(i), Id(j))
  \/ EmitTick

Spec == Init /\ [][Next]_vars

\* The same program with the scripts of ErrInputs.
NextErr ==
  \/ Configure
  \/ AddBroadcastProxy
  \/ AddCollisionProxy
  \/ ReceiveComponentAdded
  \/ Create
  \/ \E i \in Indexes, in \in ErrInputs : AssignScript(i, in)
  \/ \E cls \in ErrClasses : EntityManager_configure(cls)
  \/ \E i \in Indexes : RemoveScript(i)
  \/ \E i \in Indexes : DestroyEntity(i)
  \/ Update
  \/ EmitTick

SpecErr == Init /\ [][NextErr]_vars

\* The program of the component tests: native Position components and
\* scripts that declare one.
NextComp ==
  \/ Configure
  \/ ReceiveComponentAdded
  \/ Create
  \/ \E i \in Indexes : AssignPosition(i, 2, 3)
  \/ \E i \in Indexes, in \in CompInputs : AssignScript(i, in)
  \/ \E i \in Indexes : RemoveScript(i)
  \/ \E i \in Indexes : DestroyEntity(i)
  \/ Update

SpecComp == Init /\ [][NextComp]_vars

\* The scripts of the emission test: entities with and without on_collision.
EmitInputs ==
  { <<"entityx.tests.event_test", "EventTest", <<>>>>,
    <<"entityx.tests.update_test", "UpdateTest", <<>>>> }

\* The program of the emission test: scripts emit collisions, and a native
\* receiver and the collision proxy are subscribed to them.
NextEmit ==
  \/ Configure
  \/ AddCollisionProxy
  \/ SubscribeReceiver
  \/ ReceiveComponentAdded
  \/ Create
  \/ \E i \in Indexes, in \in EmitInputs : AssignScript(i, in)
  \/ \E cls \in {"EventTest", "UpdateTest"} : EntityManager_configure(cls)
  \/ \E i \in Indexes : RemoveScript(i)
  \/ \E i \in Indexes : DestroyEntity(i)
  \/ \E i, j \in Indexes : emit_from_script(i, j)

SpecEmit == Init /\ [][NextEmit]_vars

\* A stream logger: scripts write text to it and it is destroyed once.
NextLog ==
  \/ \E text \in Texts : write(text)
  \/ DestroyLogger

SpecLog == Init /\ [][NextLog]_vars

\* A program whose scripts destroy and create entities in their handlers.
NextLive ==
  \/ Configure
  \/ AddBroadcastProxy
  \/ ReceiveComponentAdded
  \/ Create
  \/ \E i \in Indexes, in \in LiveInputs : AssignScript(i, in)
  \/ \E i \in Indexes : DestroyEntity(i)
  \/ \E ub \in Dangling : EmitTickLive(ub)

SpecLive == Init /\ [][NextLive]_vars

\* A process that runs test cases one after the other, each with its own
\* PythonSystem; a test case needs the PythonSystem it works with.
NextInit ==
  \/ Construct
  \/ constructed > 0 /\ Configure
  \/ constructed > 0 /\ AddCollisionProxy
  \/ constructed > 0 /\ Create
  \/ \E i \in Indexes, in \in ScriptInputs :
       constructed > 0 /\ AssignScript(i, in)
  \/ ReceiveComponentAdded
  \/ constructed > 0 /\ Update

SpecInit == InitProcess /\ [][NextInit]_vars

\* =============================================================== claims
\* The script component of index i was built from module/class/args.
NativeMode(i) == script[i].kind = "script" /\ script[i].module # ""

\* The entity at index i is live and holds a component with a script object.
Realized(i) ==
  /\ i \in Alive
  /\ script[i].kind = "script"
  /\ script[i].object.kind = "instance"

\* ... holds a component whose script object is still unset.
Unrealized(i) ==
  /\ i \in Alive
  /\ script[i].kind = "script"
  /\ script[i].object.kind = "None"

Targets == { calls[k][1] : k \in 1..Len(calls) }

CallCount(ent, method) == Occurrences(calls, <<ent, method>>)

\* C1 (lazy realization): a component assigned from module/class/args has
\* an unset script object right after the assignment; the only step that
\* sets the object of an unset component is the bridge's processing of the
\* component-added notification for that entity; and after that processing
\* the object is an instance of the component's class built with the
\* entity's identity and the captured args.
C1_Step ==
  \A i \in Indexes :
    /\ (script[i].kind = "absent" /\ script'[i].kind = "script"
          /\ script'[i].module # "")
         => script'[i].object.kind = "None"
    /\ (script[i].kind = "script" /\ script[i].object.kind = "None"
          /\ script'[i].kind = "script"
          /\ script'[i].object.kind # "None")
         => (pending.kind = "added" /\ pending.entity = Id(i)
               /\ pending'.kind = "none")
    /\ (pending.kind = "added" /\ pending.entity = Id(i)
          /\ pending'.kind = "none" /\ script[i].module # "")
         => /\ script'[i].object.kind = "instance"
            /\ script'[i].object.cls = script[i].cls
            /\ script'[i].object.entity = <<i, entity_version_[i]>>
            /\ script'[i].object.args = script[i].args
            /\ script'[i].args = script[i].args

\* C1: every step realizes lazily: assignment leaves the script object
\* unset, and only the handling of the component-added notification sets it,
\* from the component's class, the entity's identity and the captured args.
C1_LazyRealization == [][C1_Step]_vars

\* A component assigned with constructor args has been realized.
C1_Witness ==
  \E i \in Indexes :
    /\ Realized(i)
    /\ NativeMode(i)
    /\ script[i].args = <<4, 5>>
    /\ script[i].object.args = <<4, 5>>
    /\ script[i].object.entity = Id(i)

\* C2 (realization precedes use): every invocation an update or delivery
\* pass makes targets the script object of an entity that has been
\* realized.
C2_RealizationPrecedesUse ==
  \A k \in 1..Len(calls) :
    LET i == calls[k][1][1]
    IN script[i].kind = "script" => script[i].object.kind = "instance"

\* C3 (update propagation): after an update pass every realized entity has
\* had update invoked exactly once, nothing else was invoked, and the flag
\* UpdateTest.update sets is true.
C3_UpdatePropagation ==
  lastOp.op = "update" =>
    /\ \A i \in Indexes :
         Realized(i) =>
           /\ CallCount(Id(i), "update") = 1
           /\ script[i].object.cls = "UpdateTest" => script[i].object.updated
    /\ \A k \in 1..Len(calls) :
         /\ calls[k][2] = "update"
         /\ calls[k][1][1] \in Alive
         /\ script[calls[k][1][1]].kind = "script"

\* C4 (update skips what is not realized): an update pass does not fail,
\* and invokes nothing on an entity that has no script component or whose
\* script object is unset.
C4_UpdateSkipsUnrealized ==
  lastOp.op = "update" =>
    /\ raised = "none"
    /\ \A i \in Indexes : ~Realized(i) => Id(i) \notin Targets

Known(p) == Occurrences(event_proxies_, p) > 0

Registered(p) == { entities[p][k] : k \in 1..Len(entities[p]) }

\* C5 (realized implies registered): once no notification is in flight,
\* every live entity the bridge has realized is registered with every proxy
\* of the bridge whose handler its script object has, and with no other.
C5_RealizedImpliesRegistered ==
  pending.kind = "none" =>
    \A i \in Indexes, p \in ProxyIds :
      (Realized(i) /\ NativeMode(i) /\ Known(p)) =>
        (handler_name(p) \in Handlers(script[i].object.cls)
           <=> Id(i) \in Registered(p))

\* C6 (no duplicate registrations): a proxy's list holds a live entity at
\* most once, and one emission invokes a handler on an entity at most once.
C6_NoDuplicateRegistrations ==
  /\ \A p \in ProxyIds, i \in Alive : Occurrences(entities[p], Id(i)) <= 1
  /\ lastOp.op \in {"tick", "collision"} =>
       \A k \in 1..Len(calls) : CallCount(calls[k][1], calls[k][2]) <= 1

\* C7 (destruction unregisters): no proxy holds an entry for an entity that
\* is not valid any more, the entity just destroyed included, so no
\* delivery faults on one.
C7_DestructionUnregisters ==
  /\ \A p \in ProxyIds : \A e \in Registered(p) : Valid(e)
  /\ lastOp.op = "destroy" =>
       \A p \in ProxyIds : lastOp.a \notin Registered(p)

\* C8 (unregistering an absent entity): when entity i is destroyed, every
\* proxy whose list does not hold it keeps its list, content and order, and
\* nothing is raised.
C8_Step ==
  \A i \in Indexes :
    (i \in Alive /\ lastOp'.op = "destroy" /\ lastOp'.a = Id(i)
       /\ entity_version_'[i] # entity_version_[i])
      => /\ raised' = "none"
         /\ \A p \in ProxyIds :
              Id(i) \notin Registered(p) => entities'[p] = entities[p]

\* C8: in every step, unregistering an entity from a proxy that does not
\* hold it leaves that proxy's list as it was and raises nothing.
C8_UnregisterAbsentIsNoOp == [][C8_Step]_vars

\* The bridge has handled a destruction and a recorded proxy's list is as
\* long as a list gets here: nothing was taken from it, so the destroyed
\* entity was not in it, and its entries are still there and live.
C8_Witness ==
  /\ lastOp.op = "destroy"
  /\ configured > 0
  /\ \E p \in ProxyIds :
       /\ Known(p)
       /\ Len(entities[p]) = MaxReceivers
       /\ \A e \in Registered(p) : Valid(e) /\ e[1] # lastOp.a[1]

\* C9 (broadcast delivery): an emission to the broadcast proxy invokes its
\* handler on every live entity the bridge has realized whose script object
\* has the handler, and on no object lacking it.
C9_BroadcastDelivery ==
  lastOp.op = "tick" =>
    /\ \A i \in Indexes :
         (Realized(i) /\ NativeMode(i)
            /\ handler_name("broadcast") \in Handlers(script[i].object.cls))
           => Id(i) \in Targets
    /\ \A k \in 1..Len(calls) :
         LET i == calls[k][1][1]
         IN /\ script[i].kind = "script"
            /\ HasAttr(script[i].object, handler_name("broadcast"))

\* C10 (participant-only delivery): emitting collision(a, b) invokes
\* on_collision on exactly the registered entities equal to a or b, without
\* failing; a registered entity that is neither keeps its state; and a
\* collided flag only becomes true on a participant of the collision.
C10_Step ==
  lastOp'.op = "collision" =>
    LET a == lastOp'.a
        b == lastOp'.b
    IN /\ raised' = "none"
       /\ { calls'[k][1] : k \in 1..Len(calls') }
            = { e \in Registered("collision") : e = a \/ e = b }
       /\ \A i \in Indexes :
            /\ (Id(i) \in Registered("collision") /\ Id(i) # a /\ Id(i) # b)
                 => script'[i] = script[i]
            /\ (Realized(i) /\ ~script[i].object.collided
                  /\ script'[i].object.collided)
                 => (Id(i) = a \/ Id(i) = b)

\* C10: in every step, a collision emission invokes the handler on exactly
\* the registered participants of the collision and on nothing else.
C10_ParticipantOnlyDelivery == [][C10_Step]_vars

\* C11 (missing handler is skipped, not raised): when every entity in the
\* broadcast proxy's list is live and holds a script object, a delivery
\* pass raises nothing, invokes the handler on exactly the listed entities
\* whose object has it, and attempts nothing on an object that lost it.
C11_MissingHandlerSkipped ==
  (/\ lastOp.op = "tick"
   /\ \A e \in Registered("broadcast") :
        /\ Valid(e)
        /\ script[e[1]].kind = "script"
        /\ script[e[1]].object.kind = "instance")
    => /\ raised = "none"
       /\ \A e \in Registered("broadcast") :
            HasAttr(script[e[1]].object, handler_name("broadcast"))
              <=> e \in Targets

\* The component at index i names a module or class that cannot be
\* resolved, or a class whose constructor raises.
Unrealizable(i) ==
  /\ script[i].kind = "script"
  /\ script[i].object.kind = "None"
  /\ script[i].cls \in {"MissingTest", "MissingClass", "RaiseInit"}

C12_Step ==
  \A i \in Indexes :
    Unrealizable(i) =>
      /\ (pending.kind = "added" /\ pending.entity = Id(i)
            /\ pending'.kind = "none")
           => /\ raised' \in {"ImportError", "AttributeError", "Exception"}
              /\ script' = script
              /\ entities' = entities
      /\ script'[i] \in {script[i], NoScript}
      /\ \A p \in ProxyIds :
           Occurrences(entities'[p], Id(i)) <= Occurrences(entities[p], Id(i))

\* C12 (realization failure is fatal and propagated): in every step, when
\* the bridge handles the component-added notification of a component whose
\* module, class or constructor fails, the failure is raised to the caller
\* of the assignment and no component or proxy list changes; and no step
\* ever gives such a component a script object (no retry) or registers its
\* entity with a proxy.
C12_RealizationFailurePropagates == [][C12_Step]_vars

\* The bridge, subscribed as often as it gets and with the broadcast proxy
\* recorded, has just failed to realize a component: the failure is raised,
\* the object is unset and the entity is in no list.
C12_Witness ==
  /\ raised \in {"ImportError", "Exception"}
  /\ lastOp = NoOp
  /\ configured = MaxConfigure
  /\ Known("broadcast")
  /\ \E i \in Indexes :
       /\ Unrealizable(i)
       /\ \A p \in ProxyIds : Id(i) \notin Registered(p)

\* The index of the first invocation of a pass that targets a method that
\* raises (0: none).
FirstRaising(cs, scr) ==
  LET ks == { k \in 1..Len(cs) :
                /\ scr[cs[k][1][1]].kind = "script"
                /\ scr[cs[k][1][1]].object.kind = "instance"
                /\ Raises(scr[cs[k][1][1]].object.cls, cs[k][2]) }
  IN IF ks = {} THEN 0 ELSE CHOOSE k \in ks : \A j \in ks : k <= j

C13_Step ==
  (lastOp'.op \in {"update", "tick"} /\ FirstRaising(calls', script) > 0)
    => /\ raised' = "Exception"
       /\ Len(calls') = FirstRaising(calls', script)
       /\ entities' = entities
       /\ \A i \in Indexes :
            script'[i] =
              IF \E k \in 1..(Len(calls') - 1) : calls'[k][1] = Id(i)
              THEN [script[i] EXCEPT
                      !.object = CallMethod(@, calls'[1][2])]
              ELSE script[i]

\* C13 (a failing update or handler aborts the pass): in every update or
\* delivery pass in which an invoked method raises, the error leaves the
\* pass, the raising invocation is the last one of the pass, the proxy
\* lists are unchanged, and the script components are as the invocations
\* before the failing one left them.
C13_FailureAbortsPass == [][C13_Step]_vars

\* An update pass was aborted by the first entity's update: the entity
\* after it, realized and with a working update, was not invoked.
C13_Witness ==
  /\ lastOp.op = "update"
  /\ raised = "Exception"
  /\ Len(calls) = 1
  /\ \E i \in Indexes :
       /\ Realized(i)
       /\ script[i].object.cls = "UpdateTest"
       /\ ~script[i].object.updated
       /\ Id(i) \notin Targets

C14_Step ==
  \A i \in Indexes :
    (/\ pending.kind = "added" /\ pending.entity = Id(i)
     /\ pending'.kind = "none"
     /\ script[i].kind = "script"
     /\ script[i].module = "")
      => /\ script'[i] = script[i]
         /\ raised' = "none"

\* C14 (wrapped objects are not re-realized): in every step in which the
\* bridge handles the component-added notification of a component that
\* wraps an existing script object, the component (its object, and its
\* empty module and class) is unchanged and nothing is raised.
C14_WrappedNotRerealized == [][C14_Step]_vars

\* The notification of a wrapped component has been handled: its entity is
\* registered with a proxy and the object is still the wrapped one.
C14_Witness ==
  /\ pending.kind = "none"
  /\ configured > 0
  /\ \E i \in Indexes :
       /\ Realized(i)
       /\ script[i].module = ""
       /\ script[i].object.cls \in ScriptClasses
       /\ script[i].object.entity = Id(i)
       /\ \E p \in ProxyIds : Id(i) \in Registered(p)

\* The component at index i wraps the script object that created the entity.
ScriptCreated(i) == script[i].kind = "script" /\ script[i].module = ""

\* The lists after the bridge handled the notification of the forward-path
\* component of the same class on the same entity.
ForwardPathLists(i) ==
  LET in == CHOOSE x \in ScriptInputs : x[2] = script[i].object.cls
      forward == [script EXCEPT ![i] = PythonScript(in[1], in[2], in[3])]
  IN NotifyAdded([script |-> forward, position |-> position,
                  entities |-> entities, raised |-> "none"],
                 Id(i), configured).entities

\* Creation: the call leaves a new live entity whose object is the caller.
C15_Created ==
  \A i \in Indexes :
    (script[i].kind = "absent" /\ script'[i].kind = "script"
       /\ script'[i].module = "")
      => /\ i \in 1..index_counter_'
         /\ \A k \in 1..Len(free_list_') : free_list_'[k] # i
         /\ script'[i].object.kind = "instance"
         /\ script'[i].object.entity = <<i, entity_version_'[i]>>

\* Registration: as for the forward-path entity.
C15_Registered ==
  \A i \in Indexes :
    (/\ pending.kind = "added" /\ pending.entity = Id(i)
     /\ pending'.kind = "none"
     /\ ScriptCreated(i))
      => /\ entities' = ForwardPathLists(i)
         /\ script'[i] = script[i]

\* Advance: update is invoked on it.
C15_Updated ==
  lastOp'.op = "update" =>
    \A i \in Indexes :
      (Realized(i) /\ ScriptCreated(i))
        => Occurrences(calls', <<Id(i), "update">>) = 1

\* Destruction: no proxy keeps it.
C15_Unregistered ==
  \A i \in Indexes :
    (/\ lastOp'.op = "destroy" /\ lastOp'.a = Id(i)
     /\ entity_version_'[i] # entity_version_[i]
     /\ ScriptCreated(i))
      => \A p \in ProxyIds : Occurrences(entities'[p], Id(i)) = 0

\* C15 (script-created entities are equivalent to native-created ones): in
\* every step, an entity created from script is a new live entity whose
\* script object is the caller; the bridge registers it with exactly the
\* proxies it would register the forward-path entity of the same class
\* with; an update pass invokes its update; and its destruction leaves it
\* in no proxy's list.
C15_ScriptCreatedEquivalent ==
  [][C15_Created /\ C15_Registered /\ C15_Updated /\ C15_Unregistered]_vars

\* C16 (argument forwarding): every realized forward-path script object was
\* built for its entity's identity with the constructor arguments given at
\* the assignment, the same number in the same order (none when none were
\* given), so what a constructor derives from (a0, a1) is (a0, a1).
C16_ArgumentForwarding ==
  \A i \in Indexes :
    (Realized(i) /\ NativeMode(i)) =>
      \E in \in ScriptInputs :
        /\ in[1] = script[i].module
        /\ in[2] = script[i].cls
        /\ script[i].object.entity = Id(i)
        /\ Len(script[i].object.args) = Len(in[3])
        /\ \A k \in 1..Len(in[3]) : script[i].object.args[k] = in[3][k]

\* A script assigned with (4, 5) has been realized and its constructor got
\* 4 as first and 5 as second argument.
C16_Witness ==
  \E i \in Indexes :
    /\ Realized(i)
    /\ script[i].cls = "TickTest"
    /\ Len(script[i].object.args) = 2
    /\ script[i].object.args[1] = 4
    /\ script[i].object.args[2] = 5

C17_Step ==
  \A i \in Indexes :
    (/\ pending.kind = "added" /\ pending.entity = Id(i)
     /\ pending'.kind = "none"
     /\ script[i].kind = "script"
     /\ script[i].object.kind = "None"
     /\ Declares(script[i].cls))
      => /\ raised' = "none"
         /\ script'[i].object.kind = "instance"
         /\ position'[i] # NoComponent
         /\ position[i] # NoComponent => position'[i] = position[i]
         /\ position[i] = NoComponent => position'[i] = Position(1, 2)
         /\ script'[i].object.position = position'[i]

\* C17 (component visibility is independent of assignment order): in
\* every step that realizes a script declaring a component, the entity has
\* the component afterwards; one assigned before the script keeps its
\* values, an absent one is created with the declared defaults; and the
\* script reads the values the entity's component has, in both cases.
C17_ComponentVisibility == [][C17_Step]_vars

\* A script declaring Position(1, 2) was realized on an entity that had
\* Position(2, 3): the entity and the script both have (2, 3).
C17_Witness ==
  \E i \in Indexes :
    /\ Realized(i)
    /\ Declares(script[i].cls)
    /\ position[i] = Position(2, 3)
    /\ script[i].object.position = Position(2, 3)

C18_Step ==
  (lastOp'.op = "emit" /\ receiver.at >= 0)
    => /\ receiver'.a = lastOp'.a
       /\ receiver'.b = lastOp'.b
       /\ Valid(receiver'.a)
       /\ Valid(receiver'.b)
       /\ lastOp'.a \in { Id(i) : i \in Alive }
       /\ lastOp'.b \in { Id(i) : i \in Alive }

\* C18 (emission from script reaches native receivers): in every step in
\* which a script emits a collision of two script objects while a native
\* receiver is subscribed to collisions, the receiver holds, when the emit
\* returns, the two participants, which are the valid entities of the two
\* objects.
C18_EmissionReachesNative == [][C18_Step]_vars

\* The places of the newlines of a text, and the j-th of them (0 for j = 0).
Newlines(str) == { k \in 1..Len(str) : str[k] = "\n" }

NewlineAt(str, j) ==
  IF j = 0 THEN 0
  ELSE CHOOSE k \in Newlines(str) :
         Cardinality({ m \in Newlines(str) : m <= k }) = j

\* The completed lines of a text, without their newlines, and the text
\* after its last newline.
CompletedLines(str) ==
  [j \in 1..Cardinality(Newlines(str)) |->
     SubSeq(str, NewlineAt(str, j - 1) + 1, NewlineAt(str, j) - 1)]

Remainder(str) ==
  SubSeq(str, NewlineAt(str, Cardinality(Newlines(str))) + 1, Len(str))

\* The lines joined by newlines.
RECURSIVE JoinLines(_)
JoinLines(lines) ==
  IF lines = <<>> THEN <<>>
  ELSE IF Len(lines) = 1 THEN lines[1]
  ELSE lines[1] \o <<"\n">> \o JoinLines(Tail(lines))

\* What the callback has been given, and what is held back: one call for
\* each completed line, in order and without its newline, then at
\* destruction one call with a non-empty remainder; no argument holds a
\* newline.
LinesLogged ==
  /\ logged = CompletedLines(written)
                \o (IF destroyed /\ Remainder(written) # <<>>
                    THEN <<Remainder(written)>> ELSE <<>>)
  /\ line_ = (IF destroyed THEN <<>> ELSE Remainder(written))
  /\ \A k \in 1..Len(logged) : Newlines(logged[k]) = {}

\* C19 as stated (line-buffered logging): the callback gets each completed
\* line once, in order and without its newline, never a newline, the
\* remainder is held back until a write completes it or the logger is
\* destroyed, and once the logger is destroyed the callback arguments
\* joined by newlines are the written text.
C19_LineBufferedLogging ==
  /\ LinesLogged
  /\ destroyed => JoinLines(logged) = written

\* C19 as amended: the same, except that the callback arguments joined by
\* newlines are the written text without its final newline, if it ends in
\* one; before destruction, the arguments each followed by a newline, and
\* then the text held back, are the written text.
C19_LineBufferedUpToFinalNewline ==
  /\ LinesLogged
  /\ ~destroyed =>
       written = (IF logged = <<>> THEN <<>>
                  ELSE JoinLines(logged) \o <<"\n">>) \o line_
  /\ destroyed =>
       \/ written = JoinLines(logged)
       \/ /\ written = JoinLines(logged) \o <<"\n">>
          /\ logged # <<>>

\* A destroyed logger was given text of two lines ending in a newline: the
\* callback got both lines and the final newline is in neither.
C19_Witness ==
  /\ destroyed
  /\ Len(written) = MaxWritten
  /\ written[Len(written)] = "\n"
  /\ Len(logged) = 2
  /\ logged[1] # <<>>
  /\ logged[2] # <<>>

\* The identity (index, version) names a live entity after the step.
ValidAfter(e) ==
  /\ e[1] \in 1..index_counter_'
  /\ \A k \in 1..Len(free_list_') : free_list_'[k] # e[1]
  /\ entity_version_'[e[1]] = e[2]

C20_Step ==
  /\ \A i \in Indexes :
       \* Realized stays Realized, with the same object, for as long as
       \* the entity keeps its Script Component.
       /\ (/\ script[i].kind = "script"
           /\ script'[i].kind = "script"
           /\ script[i].object.kind = "instance"
           /\ entity_version_'[i] = entity_version_[i])
            => /\ script'[i].object.kind = "instance"
               /\ script'[i].object.cls = script[i].object.cls
               /\ script'[i].object.entity = script[i].object.entity
               /\ script'[i].object.args = script[i].object.args
               /\ script'[i].module = script[i].module
       \* A set object belongs to a live entity and was built for it.
       /\ script'[i].kind = "script"
            => /\ ValidAfter(<<i, entity_version_'[i]>>)
               /\ script'[i].object.kind = "instance"
                    => script'[i].object.entity = <<i, entity_version_'[i]>>
       \* Destroyed is final for the identity: its component is gone.
       /\ entity_version_'[i] # entity_version_[i]
            => script'[i].kind = "absent"
  /\ \A p \in ProxyIds :
       entities'[p] # entities[p] =>
         \A k \in 1..Len(entities'[p]) :
           Occurrences(entities'[p], entities'[p][k])
               > Occurrences(entities[p], entities'[p][k])
             => ValidAfter(entities'[p][k])

C21_Step ==
  constructed' = constructed + 1 =>
    /\ initialized_'
    /\ constructed = 0 => inittab' = 1 /\ inits' = 1
    /\ constructed > 0 =>
         /\ initialized_
         /\ inittab' = inittab /\ inittab = 1
         /\ inits' = inits /\ inits = 1

\* C21 (one-time interpreter module initialization): in every step that
\* constructs a PythonSystem, the first construction of the process
\* registers the native module with the interpreter and initializes it,
\* once each; a later construction does neither, and the process-wide flag
\* is true after every construction.
C21_InitializedOnce == [][C21_Step]_vars

\* The process has constructed as many systems as it gets to: the module
\* was registered and initialized once.
C21_Witness ==
  /\ constructed = MaxSystems
  /\ initialized_
  /\ inittab = 1
  /\ inits = 1

\* The two shapes a component is constructed in.
NativeShape(comp) ==
  /\ comp.module # ""
  /\ comp.cls # ""
  /\ ~Truthy(comp.object)

WrappingShape(comp) ==
  /\ comp.module = ""
  /\ comp.cls = ""
  /\ comp.args = <<>>
  /\ Truthy(comp.object)

C22_Step ==
  \A i \in Indexes :
    \* Construction: a component that appears has one shape and not the other.
    /\ (script[i].kind = "absent" /\ script'[i].kind = "script")
         => (NativeShape(script'[i]) <=> ~WrappingShape(script'[i]))
    \* A wrapping component has a set object, in every state.
    /\ (script'[i].kind = "script" /\ script'[i].module = "")
         => WrappingShape(script'[i])
    \* The mode of a component is fixed.
    /\ (script[i].kind = "script" /\ script'[i].kind = "script"
          /\ entity_version_'[i] = entity_version_[i])
         => /\ script'[i].module = script[i].module
            /\ script'[i].cls = script[i].cls
            /\ script'[i].args = script[i].args

\* C22 (construction modes are exclusive): in every step, a Script
\* Component that is constructed either has module, class and captured args
\* and an unset script object, or wraps a script object with empty module,
\* class and args, never both and never neither; a wrapping component has a
\* set script object; and a component keeps its module, class and args.
C22_ModesExclusive == [][C22_Step]_vars

\* A component constructed with args whose object is unset, and an entity
\* created from script whose component wraps the object.
C22_Witness ==
  \E i, j \in Indexes :
    /\ script[i].kind = "script"
    /\ NativeShape(script[i])
    /\ script[i].args = <<4, 5>>
    /\ script[j].kind = "script"
    /\ WrappingShape(script[j])
    /\ script[j].object.entity = Id(j)

\* The broadcast proxy's list holds no entity twice, and every entry names
\* a live entity whose script object has the handler.
Deliverable ==
  \A k \in 1..Len(entities["broadcast"]) :
    LET e == entities["broadcast"][k]
    IN /\ Occurrences(entities["broadcast"], e) = 1
       /\ Valid(e)
       /\ script[e[1]].kind = "script"
       /\ HasAttr(script[e[1]].object, handler_name("broadcast"))

C23_Step ==
  (/\ lastOp'.op = "tick"
   /\ Deliverable
   /\ \E e \in Registered("broadcast") : ~ValidAfter(e)
   /\ \A k \in 1..Len(entities'["broadcast"]) :
        entities'["broadcast"][k] \in Registered("broadcast"))
    => /\ raised' = "none"
       /\ \A e \in Registered("broadcast") :
            /\ Occurrences(calls', <<e, "on_tick">>) <= 1
            /\ ValidAfter(e) => Occurrences(calls', <<e, "on_tick">>) = 1
       /\ \A k \in 1..Len(calls') : calls'[k][1] \in Registered("broadcast")

\* C23 (destruction from inside a delivery pass is safe): in every delivery
\* pass over a list of distinct deliverable entities in which a handler
\* destroys a registered entity and none registers one, the pass does not
\* fail, invokes the handler once on every registered entity that is still
\* live afterwards, at most once on any entity, and on nothing else.
C23_DestructionInPassSafe == [][C23_Step]_vars

C24_Step ==
  (lastOp'.op = "tick" /\ Deliverable)
    => \A k \in 1..Len(entities'["broadcast"]) :
         entities'["broadcast"][k] \notin Registered("broadcast")
           => \A j \in 1..Len(calls') :
                calls'[j][1] # entities'["broadcast"][k]

\* C24 (delivery targets the entities registered when the event fired): in
\* every delivery pass, an entity that is registered with the proxy during
\* the pass is not invoked in that pass.
C24_DeliveryTargetsSnapshot == [][C24_Step]_vars

\* C25 (registered entries are always deliverable): every entry of every
\* proxy's list names a live entity that holds a Script Component with a
\* set script object, also after the component was removed from a live
\* entity.
C25_RegisteredDeliverable ==
  \A p \in ProxyIds :
    \A e \in Registered(p) :
      /\ Valid(e)
      /\ script[e[1]].kind = "script"
      /\ Truthy(script[e[1]].object)

\* The entries of a list that are not the entity, in order.
Without(list, entity) ==
  LET Other(x) == x # entity
  IN SelectSeq(list, Other)

C26_Step ==
  \A i \in Indexes :
    (/\ lastOp'.op = "destroy"
     /\ lastOp'.a = Id(i)
     /\ entity_version_'[i] # entity_version_[i])
      => \A p \in ProxyIds :
           /\ Without(entities'[p], Id(i)) = Without(entities[p], Id(i))
           /\ Occurrences(entities'[p], Id(i))
                <= Occurrences(entities[p], Id(i))
           /\ \A v \in 1..(MaxVersion + 1) :
                v # entity_version_[i]
                  => Occurrences(entities'[p], <<i, v>>)
                       = Occurrences(entities[p], <<i, v>>)

\* C26 (destruction touches only the destroyed entity's entries): in every
\* step that destroys entity E, each proxy's list loses only entries equal
\* to E in index and version; the entries of every other entity, those of
\* another version of E's index included, stay, in the same order.
C26_DestructionFrame == [][C26_Step]_vars

\* The holder of a reused index was destroyed while a proxy's list held an
\* entry of the older version of that index: the entry is still there.
C26_Witness ==
  /\ lastOp.op = "destroy"
  /\ configured > 0
  /\ lastOp.a[2] > 1
  /\ \E p \in ProxyIds :
       /\ Known(p)
       /\ \E v \in 1..(lastOp.a[2] - 1) :
            <<lastOp.a[1], v>> \in Registered(p)

\* Sequence a is b with some entries left out.
RECURSIVE IsSubsequence(_, _)
IsSubsequence(a, b) ==
  IF a = <<>> THEN TRUE
  ELSE IF b = <<>> THEN FALSE
  ELSE IF Head(a) = Head(b) THEN IsSubsequence(Tail(a), Tail(b))
  ELSE IsSubsequence(a, Tail(b))

C27_Step ==
  \* A list is in registration order: a step that registers appends at the
  \* end, and a step that unregisters keeps the order of the others.
  /\ \A p \in ProxyIds :
       /\ Len(entities'[p]) >= Len(entities[p])
            => SubSeq(entities'[p], 1, Len(entities[p])) = entities[p]
       /\ Len(entities'[p]) < Len(entities[p])
            => IsSubsequence(entities'[p], entities[p])
  \* A pass invokes the handler on the entries in the order of the list,
  \* on all of them unless the pass fails.
  /\ lastOp'.op = "tick" =>
       /\ entities' = entities
       /\ Len(calls') <= Len(entities["broadcast"])
       /\ \A k \in 1..Len(calls') :
            calls'[k] = <<entities["broadcast"][k], handler_name("broadcast")>>
       /\ raised' = "none" => Len(calls') = Len(entities["broadcast"])

\* C27 (delivery order is registration order): in every step, entities are
\* registered at the end of a proxy's list and unregistering keeps the
\* order of the others, and a delivery pass invokes the handler on the
\* listed entities in the order of the list, so every pass over an
\* unchanged list has the same order.
C27_DeliveryInRegistrationOrder == [][C27_Step]_vars

\* A pass has invoked the handler on two entities, first on the one that
\* was registered first, which is the one with the higher index.
C27_Witness ==
  /\ lastOp.op = "tick"
  /\ raised = "none"
  /\ Len(calls) = 2
  /\ calls[1][1][1] > calls[2][1][1]
  /\ entities["broadcast"] = <<calls[1][1], calls[2][1]>>
====
